---------------------------- MODULE Spec2Model ----------------------------
(***************************************************************************)
(* A state-machine model of the dht22m kernel module (src/dht22m.c): the   *)
(* shared capture session sensor_state, the falling-edge interrupt handler *)
(* s_handle_edge, the read sequence of chardevice_open (sensor_start_read, *)
(* msleep, sensor_parse_bytes, the result section) and the gpio list       *)
(* configuration (dht22m_gpios_store).                                     *)
(*                                                                         *)
(* Time is ktime_t: nanoseconds, as ktime_get() returns them.  Every       *)
(* section of the code that runs under sensor_lock is one atomic action.   *)
(***************************************************************************)
EXTENDS Integers, Sequences, FiniteSets, TLC

(***************************************************************************)
(* Program constants.                                                      *)
(***************************************************************************)
DHT22M_WAIT_MILLISECOND_AFTER_READ == 2100
NSEC_PER_USEC == 1000
NSEC_PER_MSEC == 1000000
\* number of elements of sensor_state.timestamps: 1 + 2 + 5*8
TIMESTAMPS_LEN == 43
\* sizeof(ktime_t), a 64 bit integer
SIZEOF_KTIME == 8
\* "sizeof sensor_state.timestamps", the byte size the handler compares with
SIZEOF_TIMESTAMPS == TIMESTAMPS_LEN * SIZEOF_KTIME
\* number of data bits / bytes of a frame
DATA_BITS == 40
DATA_BYTES == 5
\* s_handle_edge: shortest accepted distance of the first edge, in us
START_PULSE_MIN_US == 500
\* sensor_decode_pulses: boundary between a 0 and a 1, in us
BIT_BOUNDARY_US == 101
\* udelay(1500) and msleep(20)
START_LOW_US == 1500
SETTLE_MS == 20

(***************************************************************************)
(* Bounds of the model.                                                    *)
(***************************************************************************)
\* slots of the per-channel tables (DHT22M_MAX_DEVICES is 8 in the code)
NumSlots == 3
\* concurrent openers of the character devices
NumCallers == 2
\* opens in one behaviour
MaxOpens == 2
\* writes of the gpio list in one behaviour
MaxStores == 1
\* falling edges that are not part of a sensor frame, in one behaviour
MaxNoise == 1
\* the clock stops before this many milliseconds
MaxClockMs == 2140
\* byte values the decoder's input frames are built from
NumByteSamples == 3
\* concurrent writers of the gpio list
NumWriters == 2
\* writes of the gpio list in one behaviour of the configuration
MaxConfStores == 3

Slots == 0 .. (NumSlots - 1)
Callers == 1 .. NumCallers
Writers == 1 .. NumWriters

Max(a, b) == IF a >= b THEN a ELSE b

(***************************************************************************)
(* C integer division truncates toward zero; \div floors.                  *)
(***************************************************************************)
TruncDiv(a, b) == IF a >= 0 THEN a \div b ELSE -((-a) \div b)
TruncMod(a, b) == a - b * TruncDiv(a, b)
ktime_to_us(kt) == TruncDiv(kt, NSEC_PER_USEC)
ktime_to_ms(kt) == TruncDiv(kt, NSEC_PER_MSEC)

Pow2(k) == 2 ^ k
\* b | (1 << k) on a byte
SetBit(b, k) == IF (b \div Pow2(k)) % 2 = 1 THEN b ELSE b + Pow2(k)

ZeroBytes == [i \in 0 .. (DATA_BYTES - 1) |-> 0]
ZeroStamps == [i \in 0 .. (TIMESTAMPS_LEN - 1) |-> 0]

VARIABLES
    sensor_state,     \* struct dht22_state, the one shared capture session
    spill,            \* the timestamps written past the end of timestamps[]
    ts_reads,         \* the timestamps[] indices read by the last decode
    sensor_states,    \* per slot: ZEROCONF, CONFIGURED, GPIOERROR, IRQERROR
    gpio_pins,        \* per slot: the gpio number
    num_gpios,
    chardev_created,  \* per slot: the character device exists
    pin_reserved,     \* the gpios this module holds by gpio_request
    irq_requested,    \* the slots whose interrupt is registered
    store,            \* per writer: its place in dht22m_gpios_store, its list
    gpio_config_mutex,\* 0 when free, else the caller or writer that holds it
    pc,               \* per caller: its place in chardevice_open
    loc,              \* per caller: the locals of chardevice_open
    clock,            \* ktime_get(), in ns
    wire,             \* the sensor that is answering: slot, frame, next edge
    ev,               \* the last falling edge delivered: slot, time, parity
    budget,           \* opens, stores, noise edges and module exits so far
    last_op           \* the last session operation: "init", "begin", "take"

vars == <<sensor_state, spill, ts_reads, sensor_states, gpio_pins, num_gpios,
          chardev_created, pin_reserved, irq_requested, store, gpio_config_mutex,
          pc, loc, clock, wire, ev, budget, last_op>>

conf_vars == <<sensor_states, gpio_pins, num_gpios, chardev_created,
               pin_reserved, irq_requested, store>>


(***************************************************************************)
(* The read states and the per-slot configuration states.                  *)
(***************************************************************************)
DTH22M_READSTATE_COLLECT == 0
DTH22M_READSTATE_OK == 1
DTH22M_READSTATE_CHKSUMERR == 2
DTH22M_READSTATE_OTHERR == 3
DTH22M_READSTATE_TOOSOON == 4
DTH22M_READSTATE_NEXT == 5

DHT22M_STATES_ZEROCONF == 0
DHT22M_STATES_CONFIGURED == 1
DHT22M_STATES_GPIOERROR == 2
DHT22M_STATES_IRQERROR == 3

(***************************************************************************)
(* sensor_decode_pulses and sensor_parse_bytes.                            *)
(***************************************************************************)
\* a decoder that is content with 42 edges
EnoughEdgesShort(n) == n >= DATA_BITS + 2

\* the precondition of sensor_decode_pulses: num_edges >= 5*8+3
EnoughEdges(n) == n >= DATA_BITS + 3

\* a decoder that takes a pulse of 101 us for a 1
BitIsOneFrom101(width) == width >= BIT_BOUNDARY_US

\* a pulse of more than 101 us is a 1
BitIsOne(width) == width > BIT_BOUNDARY_US

\* the width of data bit i, as the decoder computes it
PulseWidth(ts, i) == ktime_to_us(ts[i + 3] - ts[i + 2])

\* the loop over the 40 data bits: bytes[i / 8] |= 1 << (7 - (i & 7))
RECURSIVE DecodeLoop(_, _, _)
DecodeLoop(ts, bytes, i) ==
    IF i >= DATA_BITS THEN bytes
    ELSE LET nb == IF BitIsOne(PulseWidth(ts, i))
                   THEN [bytes EXCEPT ![i \div 8] = SetBit(@, 7 - (i % 8))]
                   ELSE bytes
         IN  DecodeLoop(ts, nb, i + 1)

\* a sum kept in an int, not a u8
ChecksumWide(bytes) == bytes[0] + bytes[1] + bytes[2] + bytes[3]

\* u8 sum = bytes[0] + bytes[1] + bytes[2] + bytes[3]
ChecksumOf(bytes) == (bytes[0] + bytes[1] + bytes[2] + bytes[3]) % 256

\* a decoder that decodes a session once: a session that readstate says
\* has been decoded is refused with OTHERR
decode_pulses_once(st) ==
    IF st.readstate \in {DTH22M_READSTATE_OK, DTH22M_READSTATE_CHKSUMERR}
    THEN [st |-> [st EXCEPT !.readstate = DTH22M_READSTATE_OTHERR], reads |-> {}]
    ELSE IF ~EnoughEdges(st.num_edges)
    THEN [st |-> [st EXCEPT !.readstate = DTH22M_READSTATE_OTHERR],
          reads |-> {}]
    ELSE LET bytes == DecodeLoop(st.timestamps, ZeroBytes, 0)
             rs == IF ChecksumOf(bytes) # bytes[4]
                   THEN DTH22M_READSTATE_CHKSUMERR
                   ELSE DTH22M_READSTATE_OK
         IN  [st |-> [st EXCEPT !.bytes = bytes, !.readstate = rs],
              reads |-> 2 .. (DATA_BITS + 2)]

\* The new session and the set of timestamps[] indices the decoder has read.
sensor_decode_pulses(st) ==
    IF ~EnoughEdges(st.num_edges)
    THEN [st |-> [st EXCEPT !.readstate = DTH22M_READSTATE_OTHERR],
          reads |-> {}]
    ELSE LET bytes == DecodeLoop(st.timestamps, ZeroBytes, 0)
             rs == IF ChecksumOf(bytes) # bytes[4]
                   THEN DTH22M_READSTATE_CHKSUMERR
                   ELSE DTH22M_READSTATE_OK
         IN  [st |-> [st EXCEPT !.bytes = bytes, !.readstate = rs],
              reads |-> 2 .. (DATA_BITS + 2)]

ParseHumidity(bytes) == bytes[0] * 256 + bytes[1]
ParseTemperature(bytes) == (bytes[2] % 128) * 256 + bytes[3]
ParseNegative(bytes) == (bytes[2] \div 128) % 2 = 1

\* The low bytes of the memory that follows timestamps[], read as a time.
BytesAsTime(bytes) == bytes[0] + 256 * bytes[1] + 65536 * bytes[2]

\* timestamps[k] for k past the end of the array: the behaviour is undefined.
\* The read returns what an earlier write past the end left there, or the
\* members that follow the array in struct dht22_state.
OobReadValues(st, sp, k) ==
    LET j == k - TIMESTAMPS_LEN + 1
    IN  (IF j \in 1 .. Len(sp) THEN {sp[j]} ELSE {})
        \cup {st.read_timestamp, BytesAsTime(st.bytes)}

\* the values of sensor_state.timestamps[sensor_state.num_edges - 1]
LastEdgeValues(st, sp) ==
    LET k == st.num_edges - 1
    IN  IF k \in 0 .. (TIMESTAMPS_LEN - 1)
        THEN {st.timestamps[k]}
        ELSE OobReadValues(st, sp, k)

\* The possible results of sensor_parse_bytes: the session and the indices read.
sensor_parse_bytes(st, sp) ==
    LET d == sensor_decode_pulses(st)
    IN  IF d.st.readstate # DTH22M_READSTATE_OK
        THEN {d}
        ELSE {[st |-> [d.st EXCEPT !.read_timestamp = t,
                                   !.negative = ParseNegative(d.st.bytes),
                                   !.humidity = ParseHumidity(d.st.bytes),
                                   !.temperature = ParseTemperature(d.st.bytes)],
               reads |-> d.reads \cup {st.num_edges - 1}]
              : t \in LastEdgeValues(d.st, sp)}

(***************************************************************************)
(* s_handle_edge.                                                          *)
(***************************************************************************)
\* a handler that wants more than 500 us
StartPulseSeenStrict(width) == width > START_PULSE_MIN_US

\* the first edge counts only once the start pulse is over: width >= 500
StartPulseSeen(width) == ~(width < START_PULSE_MIN_US)

\* the handler's capacity test: num_edges < sizeof sensor_state.timestamps
EdgeFits(n) == n < SIZEOF_TIMESTAMPS

\* a time seen as the five bytes that follow the array
TimeAsBytes(t) ==
    [i \in 0 .. (DATA_BYTES - 1) |->
        IF i < 4 THEN (t \div (256 ^ i)) % 256 ELSE 0]

\* timestamps[num_edges++] = now with num_edges past the end of the array:
\* the behaviour is undefined.  The write lands outside struct dht22_state
\* or on one of the members that follow timestamps[].
OobWrite(st, sp, now) ==
    LET n == [st EXCEPT !.num_edges = @ + 1]
        j == st.num_edges - TIMESTAMPS_LEN + 1
        nsp == IF j \in 1 .. Len(sp) THEN [sp EXCEPT ![j] = now]
               ELSE Append(sp, now)
    IN  { [st |-> n, spill |-> nsp],
          [st |-> [n EXCEPT !.bytes = TimeAsBytes(now)], spill |-> nsp],
          [st |-> [n EXCEPT !.read_timestamp = now], spill |-> nsp],
          [st |-> [n EXCEPT !.negative = (now % 256 # 0), !.temperature = 0],
           spill |-> nsp],
          [st |-> [n EXCEPT !.humidity = now], spill |-> nsp] }

\* The possible results of the handler for an edge at time now on the
\* interrupt whose dev_id points at a slot holding gpio number pin.
s_handle_edge(st, sp, pin, now) ==
    LET same == {[st |-> st, spill |-> sp]}
    IN  IF st.readstate # DTH22M_READSTATE_COLLECT THEN same
        ELSE IF st.gpio # pin THEN same
        ELSE IF st.num_edges <= 0 THEN same
        ELSE IF st.num_edges = 1
                /\ ~StartPulseSeen(ktime_to_us(now - st.timestamps[0]))
             THEN same
        ELSE IF EdgeFits(st.num_edges)
             THEN IF st.num_edges < TIMESTAMPS_LEN
                  THEN {[st |-> [st EXCEPT !.timestamps[st.num_edges] = now,
                                           !.num_edges = @ + 1],
                         spill |-> sp]}
                  ELSE OobWrite(st, sp, now)
        ELSE same

(***************************************************************************)
(* sensor_start_read: the checks and the arming of the session.            *)
(***************************************************************************)
\* a spacing rule that counts from the start of the last read
TooSoonAfterStart(st, pin, now) ==
    /\ st.gpio = pin
    /\ ktime_to_ms(now - st.timestamps[0]) < DHT22M_WAIT_MILLISECOND_AFTER_READ

\* a spacing rule for every gpio, whichever the session's was
TooSoonAnyGpio(st, pin, now) ==
    ktime_to_ms(now - st.read_timestamp) < DHT22M_WAIT_MILLISECOND_AFTER_READ

\* the spacing rule: same gpio as the session's, less than 2100 ms ago
TooSoon(st, pin, now) ==
    /\ st.gpio = pin
    /\ ktime_to_ms(now - st.read_timestamp) < DHT22M_WAIT_MILLISECOND_AFTER_READ

\* an arming that keeps the measurement of the read before
ArmSessionKeeping(st, pin, now) ==
    [st EXCEPT !.gpio = pin,
               !.readstate = DTH22M_READSTATE_COLLECT,
               !.timestamps[0] = now,
               !.num_edges = 1]

\* the session as armed for a read of gpio number pin started at now
ArmSession(st, pin, now) ==
    [st EXCEPT !.gpio = pin,
               !.readstate = DTH22M_READSTATE_COLLECT,
               !.negative = FALSE,
               !.temperature = 0,
               !.humidity = 0,
               !.timestamps[0] = now,
               !.num_edges = 1]

(***************************************************************************)
(* The message chardevice_open leaves in file->private_data.               *)
(***************************************************************************)
NoMessage == [kind |-> "none", sign |-> "", temp_int |-> 0, temp_frac |-> 0,
              hum_int |-> 0, hum_frac |-> 0]

ErrorMessage(error) ==
    [NoMessage EXCEPT !.kind = IF error = "EBUSY" THEN "ReaderBusy" ELSE "IOError"]

\* the message formatted from the session as read under the lock
ResultMessage(st) ==
    IF st.readstate = DTH22M_READSTATE_OK
    THEN [kind |-> "Ok",
          sign |-> IF st.negative THEN "-" ELSE "",
          temp_int |-> TruncDiv(st.temperature, 10),
          temp_frac |-> TruncMod(st.temperature, 10),
          hum_int |-> TruncDiv(st.humidity, 10),
          hum_frac |-> TruncMod(st.humidity, 10)]
    ELSE IF st.readstate = DTH22M_READSTATE_CHKSUMERR
    THEN [NoMessage EXCEPT !.kind = "ChecksumError"]
    ELSE IF st.readstate = DTH22M_READSTATE_TOOSOON
    THEN [NoMessage EXCEPT !.kind = "ReadTooSoon"]
    ELSE IF st.readstate = DTH22M_READSTATE_COLLECT
    THEN [NoMessage EXCEPT !.kind = "NotRead"]
    ELSE [NoMessage EXCEPT !.kind = "IOError"]

(***************************************************************************)
(* The environment: the gpio lists user space writes, the frames a sensor  *)
(* answers with, and the times of its falling edges.                       *)
(***************************************************************************)
\* the gpio lists written to the sysfs file; -1 is no valid gpio number
GpioLists == { <<4, 17, -1>> }

\* the five bytes of a frame: humidity, temperature, checksum
Frames == { <<1, 44, 128, 200, 117>>, <<1, 44, 0, 200, 246>> }

FrameBit(f, i) == (f[(i \div 8) + 1] \div Pow2(7 - (i % 8))) % 2

\* The distance of the sensor's k-th falling edge from the one before: the
\* answer to the start signal, the 80 us low and 80 us high of the handshake,
\* then per data bit 50 us low and 26 us (a 0) or 70 us (a 1) high.
EdgeGap(f, k) ==
    IF k = 1 THEN 30 * NSEC_PER_USEC
    ELSE IF k = 2 THEN 160 * NSEC_PER_USEC
    ELSE IF FrameBit(f, k - 3) = 1 THEN 120 * NSEC_PER_USEC
    ELSE 76 * NSEC_PER_USEC

\* number of falling edges of one answer: 2 of the handshake and 40 data bits
FrameEdges == DATA_BITS + 2

\* the distance of a stray falling edge from the event before it, in ns
NoiseGaps == { 400 * NSEC_PER_USEC, START_PULSE_MIN_US * NSEC_PER_USEC - 1,
              START_PULSE_MIN_US * NSEC_PER_USEC, 600 * NSEC_PER_USEC }

MaxClock == MaxClockMs * NSEC_PER_MSEC

NoWire == [slot |-> 0, frame |-> <<>>, k |-> 0]

\* no call of configure_gpios fails but a gpio_request of a gpio held already
NoFault == [i \in Slots |-> "none"]

\* a writer outside dht22m_gpios_store; fault is what the calls of its
\* configure_gpios returned
IdleStore == [pc |-> "idle", list |-> <<>>, fault |-> NoFault]

InitLoc == [minor |-> 0, now |-> 0, error |-> "OK", cause |-> "none",
            t0 |-> 0, message |-> NoMessage]

(***************************************************************************)
(* The state after dht22m_init.                                            *)
(***************************************************************************)
InitSession ==
    [gpio |-> 0, readstate |-> DTH22M_READSTATE_NEXT, num_edges |-> 0,
     timestamps |-> ZeroStamps, bytes |-> ZeroBytes, read_timestamp |-> 0,
     negative |-> FALSE, temperature |-> 0, humidity |-> 0]

Init ==
    /\ sensor_state = InitSession
    /\ spill = <<>>
    /\ ts_reads = {}
    /\ sensor_states = [i \in Slots |-> DHT22M_STATES_ZEROCONF]
    /\ gpio_pins = [i \in Slots |-> 0]
    /\ num_gpios = 0
    /\ chardev_created = [i \in Slots |-> FALSE]
    /\ pin_reserved = {}
    /\ irq_requested = {}
    /\ store = [w \in Writers |-> IdleStore]
    /\ gpio_config_mutex = 0
    /\ pc = [c \in Callers |-> "idle"]
    /\ loc = [c \in Callers |-> InitLoc]
    /\ clock = 0
    /\ wire = NoWire
    /\ ev = [slot |-> 0, now |-> 0, par |-> 0]
    /\ budget = [opens |-> 0, stores |-> 0, noise |-> 0, exits |-> 0]
    /\ last_op = "init"

(***************************************************************************)
(* Scheduling.  A caller that can run its next section runs it at once:    *)
(* the checks of sensor_start_read once gpio_config_mutex is free, and the *)
(* start signal after the arming.  Other callers, edges and gpio list      *)
(* writes interleave where a caller waits or can be preempted with no lock *)
(* held: for the mutex, in udelay, in msleep, before the result section,   *)
(* and between the return of a failed sensor_start_read and the reset of   *)
(* readstate in chardevice_open.                                           *)
(***************************************************************************)
Urgent(c) ==
    \/ pc[c] = "drive_out"
    \/ pc[c] = "start" /\ gpio_config_mutex = 0

Quiet == \A c \in Callers : ~Urgent(c)

(***************************************************************************)
(* dht22m_gpios_store: free_gpios, remove_devices, configure_gpios,        *)
(* create_devices, all under gpio_config_mutex.                            *)
(***************************************************************************)
\* the new list, zero-filled to the size of the table
NewGpioPins(list) == [i \in Slots |-> IF i < Len(list) THEN list[i + 1] ELSE 0]

gpio_is_valid(pin) == pin >= 0

\* free_gpios: the configuration [states, reserved, irqs] with every
\* configured slot released
free_gpios(cfg, pins) ==
    LET conf == {i \in Slots : cfg.states[i] = DHT22M_STATES_CONFIGURED}
    IN  [states |-> [i \in Slots |-> IF i \in conf THEN DHT22M_STATES_ZEROCONF
                                     ELSE cfg.states[i]],
         reserved |-> cfg.reserved \ {pins[i] : i \in conf},
         irqs |-> cfg.irqs \ conf]

\* the calls of configure_gpios that can fail for a valid gpio number
ConfigureCalls == {"gpio_request", "gpio_direction_input", "gpio_to_irq",
                   "request_irq"}

\* a loop body that takes the gpio as configured whatever request_irq says
ConfigureSlotAnyIrq(cfg, pin, i, failing) ==
    IF ~gpio_is_valid(pin) \/ pin \in cfg.reserved
          \/ failing \in {"gpio_request", "gpio_direction_input"}
    THEN [cfg EXCEPT !.states[i] = DHT22M_STATES_GPIOERROR]
    ELSE IF failing = "gpio_to_irq"
    THEN [cfg EXCEPT !.states[i] = DHT22M_STATES_IRQERROR]
    ELSE [cfg EXCEPT !.states[i] = DHT22M_STATES_CONFIGURED,
                     !.reserved = @ \cup {pin},
                     !.irqs = @ \cup {i}]

\* a loop body that keeps the gpio when gpio_to_irq or request_irq fails
ConfigureSlotKeepingGpio(cfg, pin, i, failing) ==
    IF ~gpio_is_valid(pin) \/ pin \in cfg.reserved
          \/ failing \in {"gpio_request", "gpio_direction_input"}
    THEN [cfg EXCEPT !.states[i] = DHT22M_STATES_GPIOERROR]
    ELSE IF failing \in {"gpio_to_irq", "request_irq"}
    THEN [cfg EXCEPT !.states[i] = DHT22M_STATES_IRQERROR,
                     !.reserved = @ \cup {pin}]
    ELSE [cfg EXCEPT !.states[i] = DHT22M_STATES_CONFIGURED,
                     !.reserved = @ \cup {pin},
                     !.irqs = @ \cup {i}]

\* The body of the loop of configure_gpios for slot i, where the call named
\* failing fails: gpio_is_valid, gpio_request, gpio_direction_input,
\* gpio_to_irq, request_irq; each failure after gpio_request frees the gpio.
ConfigureSlot(cfg, pin, i, failing) ==
    IF ~gpio_is_valid(pin) \/ pin \in cfg.reserved
          \/ failing \in {"gpio_request", "gpio_direction_input"}
    THEN [cfg EXCEPT !.states[i] = DHT22M_STATES_GPIOERROR]
    ELSE IF failing \in {"gpio_to_irq", "request_irq"}
    THEN [cfg EXCEPT !.states[i] = DHT22M_STATES_IRQERROR]
    ELSE [cfg EXCEPT !.states[i] = DHT22M_STATES_CONFIGURED,
                     !.reserved = @ \cup {pin},
                     !.irqs = @ \cup {i}]

\* configure_gpios: the loop over the slots i < n, from slot i on; fault[i]
\* names the call that fails for slot i
RECURSIVE configure_gpios(_, _, _, _, _)
configure_gpios(cfg, pins, n, i, fault) ==
    IF i >= n \/ i >= NumSlots THEN cfg
    ELSE configure_gpios(ConfigureSlot(cfg, pins[i], i, fault[i]),
                         pins, n, i + 1, fault)

Store(list) ==
    /\ Quiet
    /\ budget.stores < MaxStores
    /\ gpio_config_mutex = 0
    /\ budget' = [budget EXCEPT !.stores = @ + 1]
    /\ LET new == NewGpioPins(list)
           cfg == [states |-> sensor_states, reserved |-> pin_reserved,
                   irqs |-> irq_requested]
       IN  IF gpio_pins # new
           THEN LET done == configure_gpios(free_gpios(cfg, gpio_pins), new,
                                            Len(list), 0, NoFault)
                IN  /\ store' = store
                    /\ sensor_states' = done.states
                    /\ pin_reserved' = done.reserved
                    /\ irq_requested' = done.irqs
                    /\ num_gpios' = Len(list)
                    /\ gpio_pins' = new
                    /\ chardev_created' = [i \in Slots |-> i < Len(list)]
           ELSE UNCHANGED conf_vars
    /\ UNCHANGED <<sensor_state, spill, ts_reads, gpio_config_mutex, pc, loc,
                   clock, wire, ev, last_op>>

(***************************************************************************)
(* dht22m_gpios_store step by step, writer w: the parse of the buffer, the *)
(* mutex_lock, the is_change test with free_gpios and remove_devices, then *)
(* the new list with configure_gpios and create_devices, the mutex_unlock. *)
(***************************************************************************)
\* the value of gpio_config_mutex when writer w holds it
StoreOwner(w) == NumCallers + w

\* the gpio lists written while the module is configured
ConfLists == { <<4, 17, -1>>, <<17, 4>>, <<4, 4>> }

\* the failing calls tried: none, or one of the four calls for one slot
FaultMaps ==
    { NoFault,
      [NoFault EXCEPT ![0] = "gpio_direction_input"],
      [NoFault EXCEPT ![0] = "request_irq"],
      [NoFault EXCEPT ![1] = "gpio_request"],
      [NoFault EXCEPT ![1] = "gpio_to_irq"] }

\* the buffer is parsed into new_gpio_pins and new_num_gpios
StoreEnter(w, list) ==
    /\ store[w].pc = "idle"
    /\ budget.stores < MaxConfStores
    /\ budget' = [budget EXCEPT !.stores = @ + 1]
    /\ store' = [store EXCEPT ![w] = [IdleStore EXCEPT !.pc = "lock",
                                                       !.list = list]]
    /\ UNCHANGED <<sensor_state, spill, ts_reads, sensor_states, gpio_pins,
                   num_gpios, chardev_created, pin_reserved, irq_requested,
                   gpio_config_mutex, pc, loc, clock, wire, ev, last_op>>

\* a writer that does not wait for gpio_config_mutex
StoreLockAtOnce(w) ==
    /\ store[w].pc = "lock"
    /\ gpio_config_mutex' = StoreOwner(w)
    /\ store' = [store EXCEPT ![w].pc = "check"]
    /\ UNCHANGED <<sensor_state, spill, ts_reads, sensor_states, gpio_pins,
                   num_gpios, chardev_created, pin_reserved, irq_requested,
                   pc, loc, clock, wire, ev, budget, last_op>>

\* mutex_lock(&gpio_config_mutex)
StoreLock(w) ==
    /\ store[w].pc = "lock"
    /\ gpio_config_mutex = 0
    /\ gpio_config_mutex' = StoreOwner(w)
    /\ store' = [store EXCEPT ![w].pc = "check"]
    /\ UNCHANGED <<sensor_state, spill, ts_reads, sensor_states, gpio_pins,
                   num_gpios, chardev_created, pin_reserved, irq_requested,
                   pc, loc, clock, wire, ev, budget, last_op>>

\* is_change; when the list differs, free_gpios and remove_devices
StoreCheck(w) ==
    /\ store[w].pc = "check"
    /\ IF gpio_pins # NewGpioPins(store[w].list)
       THEN LET cfg == [states |-> sensor_states, reserved |-> pin_reserved,
                        irqs |-> irq_requested]
                freed == free_gpios(cfg, gpio_pins)
            IN  /\ sensor_states' = freed.states
                /\ pin_reserved' = freed.reserved
                /\ irq_requested' = freed.irqs
                /\ chardev_created' = [i \in Slots |-> FALSE]
                /\ store' = [store EXCEPT ![w].pc = "configure"]
       ELSE /\ store' = [store EXCEPT ![w].pc = "unlock"]
            /\ UNCHANGED <<sensor_states, pin_reserved, irq_requested,
                           chardev_created>>
    /\ UNCHANGED <<sensor_state, spill, ts_reads, gpio_pins, num_gpios,
                   gpio_config_mutex, pc, loc, clock, wire, ev, budget, last_op>>

\* num_gpios and gpio_pins take the new list; configure_gpios, where the
\* calls named by fault fail; create_devices
StoreConfigure(w, fault) ==
    /\ store[w].pc = "configure"
    /\ LET list == store[w].list
           new == NewGpioPins(list)
           cfg == [states |-> sensor_states, reserved |-> pin_reserved,
                   irqs |-> irq_requested]
           done == configure_gpios(cfg, new, Len(list), 0, fault)
       IN  /\ num_gpios' = Len(list)
           /\ gpio_pins' = new
           /\ sensor_states' = done.states
           /\ pin_reserved' = done.reserved
           /\ irq_requested' = done.irqs
           /\ chardev_created' = [i \in Slots |-> i < Len(list)]
    /\ store' = [store EXCEPT ![w].pc = "unlock", ![w].fault = fault]
    /\ UNCHANGED <<sensor_state, spill, ts_reads, gpio_config_mutex, pc, loc,
                   clock, wire, ev, budget, last_op>>

\* mutex_unlock(&gpio_config_mutex)
StoreUnlock(w) ==
    /\ store[w].pc = "unlock"
    /\ gpio_config_mutex' = 0
    /\ store' = [store EXCEPT ![w] = IdleStore]
    /\ UNCHANGED <<sensor_state, spill, ts_reads, sensor_states, gpio_pins,
                   num_gpios, chardev_created, pin_reserved, irq_requested,
                   pc, loc, clock, wire, ev, budget, last_op>>

(***************************************************************************)
(* dht22m_cleanup: free_gpios and remove_devices under gpio_config_mutex.  *)
(* The module is unloaded once, with no caller inside chardevice_open, and *)
(* no open and no write of the gpio list begins after that; a write that   *)
(* has begun goes on.                                                      *)
(***************************************************************************)
ModuleCleanup ==
    /\ budget.exits = 0
    /\ \A c \in Callers : pc[c] = "idle"
    /\ gpio_config_mutex = 0
    /\ LET cfg == [states |-> sensor_states, reserved |-> pin_reserved,
                   irqs |-> irq_requested]
           freed == free_gpios(cfg, gpio_pins)
       IN  /\ sensor_states' = freed.states
           /\ pin_reserved' = freed.reserved
           /\ irq_requested' = freed.irqs
           /\ chardev_created' = [i \in Slots |-> FALSE]
    /\ budget' = [opens |-> MaxOpens, stores |-> MaxConfStores,
                  noise |-> MaxNoise, exits |-> 1]
    /\ UNCHANGED <<sensor_state, spill, ts_reads, gpio_pins, num_gpios, store,
                   gpio_config_mutex, pc, loc, clock, wire, ev, last_op>>

(***************************************************************************)
(* Falling edges: the interrupt of slot i fires at time now.               *)
(***************************************************************************)
DeliverEdge(i, now) ==
    /\ \E o \in s_handle_edge(sensor_state, spill, gpio_pins[i], now) :
          /\ sensor_state' = o.st
          /\ spill' = o.spill
    /\ ev' = [slot |-> i, now |-> now, par |-> 1 - ev.par]

\* the next falling edge of the sensor that is answering
SensorEdge ==
    /\ Quiet
    /\ wire.k \in 1 .. FrameEdges
    /\ wire.slot \in irq_requested
    /\ clock + EdgeGap(wire.frame, wire.k) <= MaxClock
    /\ clock' = clock + EdgeGap(wire.frame, wire.k)
    /\ DeliverEdge(wire.slot, clock')
    /\ wire' = IF wire.k = FrameEdges THEN NoWire ELSE [wire EXCEPT !.k = @ + 1]
    /\ UNCHANGED <<ts_reads, conf_vars, gpio_config_mutex, pc, loc, budget,
                   last_op>>

\* A stray falling edge on the pin of slot i, d ns after the last event.  The
\* strays come where the handler's tests decide: while the slot's read waits
\* for its first edge, and when timestamps[] is full.
NoiseEdge(i, d) ==
    /\ Quiet
    /\ budget.noise < MaxNoise
    /\ sensor_state.readstate = DTH22M_READSTATE_COLLECT
    /\ sensor_state.gpio = gpio_pins[i]
    /\ sensor_state.num_edges \in {1, TIMESTAMPS_LEN}
    /\ i \in irq_requested
    /\ clock + d <= MaxClock
    /\ budget' = [budget EXCEPT !.noise = @ + 1]
    /\ clock' = clock + d
    /\ DeliverEdge(i, clock')
    /\ UNCHANGED <<ts_reads, conf_vars, gpio_config_mutex, pc, loc, wire,
                   last_op>>

(***************************************************************************)
(* chardevice_open, caller c opening the device of slot m.                 *)
(***************************************************************************)
\* open(2) reaches chardevice_open; sensor_start_read takes now = ktime_get()
OpenEnter(c, m) ==
    /\ Quiet
    /\ pc[c] = "idle"
    /\ budget.opens < MaxOpens
    /\ chardev_created[m]
    /\ budget' = [budget EXCEPT !.opens = @ + 1]
    /\ pc' = [pc EXCEPT ![c] = "start"]
    /\ loc' = [loc EXCEPT ![c] = [InitLoc EXCEPT !.minor = m, !.now = clock]]
    /\ UNCHANGED <<sensor_state, spill, ts_reads, conf_vars, gpio_config_mutex,
                   clock, wire, ev, last_op>>

\* sensor_start_read returns at one of its three early exits
Reject(c, error, cause) ==
    /\ pc' = [pc EXCEPT ![c] = "fail"]
    /\ loc' = [loc EXCEPT ![c].error = error, ![c].cause = cause]
    /\ last_op' = "begin"
    /\ UNCHANGED <<spill, ts_reads, conf_vars, gpio_config_mutex, clock, wire,
                   ev, budget>>

\* readstate != DTH22M_READSTATE_NEXT: return -EBUSY
StartBusy(c) ==
    /\ pc[c] = "start"
    /\ gpio_config_mutex = 0
    /\ sensor_state.readstate # DTH22M_READSTATE_NEXT
    /\ UNCHANGED sensor_state
    /\ Reject(c, "EBUSY", "busy")

\* a check that rejects the slot and leaves readstate alone
StartUnavailableKeeping(c) ==
    /\ pc[c] = "start"
    /\ gpio_config_mutex = 0
    /\ sensor_state.readstate = DTH22M_READSTATE_NEXT
    /\ sensor_states[loc[c].minor] # DHT22M_STATES_CONFIGURED
    /\ UNCHANGED sensor_state
    /\ Reject(c, "EIO", "unavailable")

\* the slot is not configured: readstate = OTHERR, return -EIO
StartUnavailable(c) ==
    /\ pc[c] = "start"
    /\ gpio_config_mutex = 0
    /\ sensor_state.readstate = DTH22M_READSTATE_NEXT
    /\ sensor_states[loc[c].minor] # DHT22M_STATES_CONFIGURED
    /\ sensor_state' = [sensor_state EXCEPT !.readstate = DTH22M_READSTATE_OTHERR]
    /\ Reject(c, "EIO", "unavailable")

\* the spacing rule applies: readstate = TOOSOON, return -EBUSY
StartTooSoon(c) ==
    /\ pc[c] = "start"
    /\ gpio_config_mutex = 0
    /\ sensor_state.readstate = DTH22M_READSTATE_NEXT
    /\ sensor_states[loc[c].minor] = DHT22M_STATES_CONFIGURED
    /\ TooSoon(sensor_state, gpio_pins[loc[c].minor], loc[c].now)
    /\ sensor_state' = [sensor_state EXCEPT !.readstate = DTH22M_READSTATE_TOOSOON]
    /\ Reject(c, "EBUSY", "toosoon")

\* the session is armed; gpio_config_mutex stays held for the start signal
StartArm(c) ==
    /\ pc[c] = "start"
    /\ gpio_config_mutex = 0
    /\ sensor_state.readstate = DTH22M_READSTATE_NEXT
    /\ sensor_states[loc[c].minor] = DHT22M_STATES_CONFIGURED
    /\ ~TooSoon(sensor_state, gpio_pins[loc[c].minor], loc[c].now)
    /\ sensor_state' = ArmSession(sensor_state, gpio_pins[loc[c].minor], loc[c].now)
    /\ gpio_config_mutex' = c
    /\ pc' = [pc EXCEPT ![c] = "drive_out"]
    /\ last_op' = "begin"
    /\ UNCHANGED <<spill, ts_reads, conf_vars, loc, clock, wire, ev, budget>>

\* gpio_direction_output(sensor_state.gpio, 0) succeeds: the line falls, and
\* the interrupt of the pin fires
DriveOutputOk(c) ==
    /\ pc[c] = "drive_out"
    /\ pc' = [pc EXCEPT ![c] = "drive_in"]
    /\ loc' = [loc EXCEPT ![c].t0 = clock]
    /\ \E i \in irq_requested :
          /\ gpio_pins[i] = sensor_state.gpio
          /\ DeliverEdge(i, clock)
    /\ UNCHANGED <<ts_reads, conf_vars, gpio_config_mutex, clock, wire, budget,
                   last_op>>

\* start_seq_error: readstate = OTHERR, return -EIO
StartSeqError(c) ==
    /\ sensor_state' = [sensor_state EXCEPT !.readstate = DTH22M_READSTATE_OTHERR]
    /\ gpio_config_mutex' = 0
    /\ pc' = [pc EXCEPT ![c] = "fail"]
    /\ loc' = [loc EXCEPT ![c].error = "EIO", ![c].cause = "drive"]
    /\ UNCHANGED <<spill, ts_reads, conf_vars, ev, budget, last_op>>

\* gpio_direction_output fails
DriveOutputFail(c) ==
    /\ pc[c] = "drive_out"
    /\ UNCHANGED <<clock, wire>>
    /\ StartSeqError(c)

\* udelay(1500), gpio_set_value(1), gpio_direction_input succeeds: the read
\* is started, and the sensor on the pin begins to answer, or none is there
DriveInputOk(c) ==
    /\ Quiet
    /\ pc[c] = "drive_in"
    /\ clock' = Max(clock, loc[c].t0 + START_LOW_US * NSEC_PER_USEC)
    /\ gpio_config_mutex' = 0
    /\ pc' = [pc EXCEPT ![c] = "sleep"]
    /\ loc' = [loc EXCEPT ![c].t0 = clock']
    /\ \/ \E f \in Frames : wire' = [slot |-> loc[c].minor, frame |-> f, k |-> 1]
       \/ wire' = NoWire
    /\ UNCHANGED <<sensor_state, spill, ts_reads, conf_vars, ev, budget, last_op>>

\* udelay(1500), gpio_set_value(1), gpio_direction_input fails
DriveInputFail(c) ==
    /\ Quiet
    /\ pc[c] = "drive_in"
    /\ clock' = Max(clock, loc[c].t0 + START_LOW_US * NSEC_PER_USEC)
    /\ UNCHANGED wire
    /\ StartSeqError(c)

\* the same failure, with a sensor that has seen the start signal and answers
DriveInputFailAnswered(c) ==
    /\ Quiet
    /\ pc[c] = "drive_in"
    /\ clock' = Max(clock, loc[c].t0 + START_LOW_US * NSEC_PER_USEC)
    /\ \E f \in Frames : wire' = [slot |-> loc[c].minor, frame |-> f, k |-> 1]
    /\ StartSeqError(c)

\* an error path that makes the message and leaves readstate as it is
OpenFailKeeping(c) ==
    /\ pc[c] = "fail"
    /\ pc' = [pc EXCEPT ![c] = "idle"]
    /\ loc' = [loc EXCEPT ![c].message = ErrorMessage(loc[c].error),
                          ![c].now = 0, ![c].t0 = 0]
    /\ UNCHANGED <<sensor_state, spill, ts_reads, conf_vars, gpio_config_mutex,
                   clock, wire, ev, budget, last_op>>

\* error != 0: readstate = NEXT, the message is ReaderBusy or IOError
OpenFail(c) ==
    /\ pc[c] = "fail"
    /\ sensor_state' = [sensor_state EXCEPT !.readstate = DTH22M_READSTATE_NEXT]
    /\ pc' = [pc EXCEPT ![c] = "idle"]
    /\ loc' = [loc EXCEPT ![c].message = ErrorMessage(loc[c].error),
                          ![c].now = 0, ![c].t0 = 0]
    /\ UNCHANGED <<spill, ts_reads, conf_vars, gpio_config_mutex, clock, wire,
                   ev, budget, last_op>>

\* the answering sensor's next falling edge is due by time t
EdgeDueBy(t) ==
    /\ wire.k \in 1 .. FrameEdges
    /\ wire.slot \in irq_requested
    /\ clock + EdgeGap(wire.frame, wire.k) <= t

\* msleep(20), then sensor_parse_bytes; the edges due while the caller
\* sleeps come first
ParseBytes(c) ==
    /\ Quiet
    /\ pc[c] = "sleep"
    /\ loc[c].t0 <= MaxClock - SETTLE_MS * NSEC_PER_MSEC
    /\ Max(clock, loc[c].t0 + SETTLE_MS * NSEC_PER_MSEC) <= MaxClock
    /\ ~EdgeDueBy(Max(clock, loc[c].t0 + SETTLE_MS * NSEC_PER_MSEC))
    /\ clock' = Max(clock, loc[c].t0 + SETTLE_MS * NSEC_PER_MSEC)
    /\ \E r \in sensor_parse_bytes(sensor_state, spill) :
          /\ sensor_state' = r.st
          /\ ts_reads' = r.reads
    /\ pc' = [pc EXCEPT ![c] = "take"]
    /\ UNCHANGED <<spill, conf_vars, gpio_config_mutex, loc, wire, ev, budget,
                   last_op>>

\* the result section: the session is read into the message, readstate = NEXT
TakeResult(c) ==
    /\ Quiet
    /\ pc[c] = "take"
    /\ loc' = [loc EXCEPT ![c].message = ResultMessage(sensor_state),
                          ![c].now = 0, ![c].t0 = 0]
    /\ sensor_state' = [sensor_state EXCEPT !.readstate = DTH22M_READSTATE_NEXT]
    /\ pc' = [pc EXCEPT ![c] = "idle"]
    /\ last_op' = "take"
    /\ UNCHANGED <<spill, ts_reads, conf_vars, gpio_config_mutex, clock, wire,
                   ev, budget>>

\* Nothing happens until d ns before the spacing of the last good read is over.
LongWait(d) ==
    /\ \A c \in Callers : pc[c] = "idle"
    /\ wire = NoWire
    /\ sensor_state.read_timestamp > 0
    /\ sensor_state.read_timestamp
         <= MaxClock - DHT22M_WAIT_MILLISECOND_AFTER_READ * NSEC_PER_MSEC
    /\ clock < sensor_state.read_timestamp
                 + DHT22M_WAIT_MILLISECOND_AFTER_READ * NSEC_PER_MSEC - d
    /\ clock' = sensor_state.read_timestamp
                  + DHT22M_WAIT_MILLISECOND_AFTER_READ * NSEC_PER_MSEC - d
    /\ UNCHANGED <<sensor_state, spill, ts_reads, conf_vars, gpio_config_mutex,
                   pc, loc, wire, ev, budget, last_op>>

Next ==
    \/ \E list \in GpioLists : Store(list)
    \/ \E c \in Callers, m \in Slots : OpenEnter(c, m)
    \/ \E c \in Callers : StartBusy(c)
    \/ \E c \in Callers : StartUnavailable(c)
    \/ \E c \in Callers : StartTooSoon(c)
    \/ \E c \in Callers : StartArm(c)
    \/ \E c \in Callers : DriveOutputOk(c)
    \/ \E c \in Callers : DriveOutputFail(c)
    \/ \E c \in Callers : DriveInputOk(c)
    \/ \E c \in Callers : DriveInputFail(c)
    \/ \E c \in Callers : OpenFail(c)
    \/ \E c \in Callers : ParseBytes(c)
    \/ \E c \in Callers : TakeResult(c)
    \/ SensorEdge
    \/ \E i \in Slots, d \in NoiseGaps : NoiseEdge(i, d)
    \/ \E d \in {0, 1} : LongWait(d)

Spec == Init /\ [][Next]_vars

(***************************************************************************)
(* The module loaded when the clock has run for the time of the spacing    *)
(* rule: read_timestamp = 0 is then no longer a read too close.            *)
(***************************************************************************)
InitLate ==
    /\ sensor_state = InitSession
    /\ spill = <<>>
    /\ ts_reads = {}
    /\ sensor_states = [i \in Slots |-> DHT22M_STATES_ZEROCONF]
    /\ gpio_pins = [i \in Slots |-> 0]
    /\ num_gpios = 0
    /\ chardev_created = [i \in Slots |-> FALSE]
    /\ pin_reserved = {}
    /\ irq_requested = {}
    /\ store = [w \in Writers |-> IdleStore]
    /\ gpio_config_mutex = 0
    /\ pc = [c \in Callers |-> "idle"]
    /\ loc = [c \in Callers |-> InitLoc]
    /\ clock = DHT22M_WAIT_MILLISECOND_AFTER_READ * NSEC_PER_MSEC
    /\ wire = NoWire
    /\ ev = [slot |-> 0, now |-> 0, par |-> 0]
    /\ budget = [opens |-> 0, stores |-> 0, noise |-> 0, exits |-> 0]
    /\ last_op = "init"

NextLate ==
    \/ \E list \in GpioLists : Store(list)
    \/ \E c \in Callers, m \in Slots : OpenEnter(c, m)
    \/ \E c \in Callers : StartBusy(c)
    \/ \E c \in Callers : StartUnavailable(c)
    \/ \E c \in Callers : StartTooSoon(c)
    \/ \E c \in Callers : StartArm(c)
    \/ \E c \in Callers : DriveOutputOk(c)
    \/ \E c \in Callers : DriveOutputFail(c)
    \/ \E c \in Callers : DriveInputOk(c)
    \/ \E c \in Callers : DriveInputFail(c)
    \/ \E c \in Callers : OpenFail(c)
    \/ \E c \in Callers : ParseBytes(c)
    \/ \E c \in Callers : TakeResult(c)
    \/ SensorEdge
    \/ \E i \in Slots, d \in NoiseGaps : NoiseEdge(i, d)

SpecLate == InitLate /\ [][NextLate]_vars

(***************************************************************************)
(* The decoder on its own: sensor_parse_bytes and the result section run   *)
(* on sessions whose 43 timestamps are built from sample frames.           *)
(***************************************************************************)
ByteSampleSeq == <<0, 255, 128, 1, 44, 200, 127, 245>>

ByteSamples == {ByteSampleSeq[j] : j \in 1 .. NumByteSamples}

\* frames of sample bytes with a right or a wrong checksum byte, the frame
\* {0x01,0x2C,0x00,0xC8,0xF5}, and the all-zero frame
DecodeFrames ==
    { <<b[1], b[2], b[3], b[4], (b[1] + b[2] + b[3] + b[4] + e) % 256>> :
        b \in [1 .. 4 -> ByteSamples], e \in {0, 1} }
    \cup { <<1, 44, 0, 200, 245>>, <<0, 0, 0, 0, 0>> }

\* the widths, in ns, a sensor's 0 bit and 1 bit are seen with
ZeroWidths == { 80 * NSEC_PER_USEC, BIT_BOUNDARY_US * NSEC_PER_USEC,
                BIT_BOUNDARY_US * NSEC_PER_USEC + 999 }
OneWidths == { (BIT_BOUNDARY_US + 1) * NSEC_PER_USEC, 120 * NSEC_PER_USEC }

\* the edge counts the decoder is entered with
EdgeCounts == { TIMESTAMPS_LEN - 1, TIMESTAMPS_LEN, TIMESTAMPS_LEN + 1 }

\* The timestamps of a read armed at time base whose edges came as frame f
\* with the widths zw and ow, and one more edge after the frame.
FrameStamps(base, f, zw, ow) ==
    LET ts[k \in 0 .. TIMESTAMPS_LEN] ==
            IF k = 0 THEN base
            ELSE IF k = 1 THEN ts[0] + (START_LOW_US + 30) * NSEC_PER_USEC
            ELSE IF k = 2 THEN ts[1] + 160 * NSEC_PER_USEC
            ELSE IF k > FrameEdges THEN ts[k - 1] + zw
            ELSE ts[k - 1] + (IF FrameBit(f, k - 3) = 1 THEN ow ELSE zw)
    IN  ts

\* what an earlier good read left in the session
StaleSession ==
    [InitSession EXCEPT !.bytes = [i \in 0 .. (DATA_BYTES - 1) |->
                                      <<2, 88, 129, 4, 223>>[i + 1]],
                        !.read_timestamp = 7 * NSEC_PER_MSEC,
                        !.negative = TRUE,
                        !.temperature = 260,
                        !.humidity = 600]

DecodeBase == 100 * NSEC_PER_MSEC

InitDecode ==
    /\ \E f \in DecodeFrames, zw \in ZeroWidths, ow \in OneWidths,
          n \in EdgeCounts, old \in {InitSession, StaleSession},
          g \in {0, 1} :
          LET ts == FrameStamps(DecodeBase, f, zw, ow)
              \* a frame of 40 bits has 43 timestamps; with g = 1 one more
              \* edge came in the handshake, and the last one is past the end
              all == [k \in 0 .. TIMESTAMPS_LEN |->
                         IF g = 1 /\ k >= 2
                         THEN (IF k = 2 THEN ts[1] + 80 * NSEC_PER_USEC
                               ELSE ts[k - 1])
                         ELSE ts[k]]
          IN  /\ (g = 1) => (n = TIMESTAMPS_LEN + 1)
              /\ sensor_state =
                    [old EXCEPT !.gpio = 4,
                                !.readstate = DTH22M_READSTATE_COLLECT,
                                !.num_edges = n,
                                !.timestamps =
                                    [k \in 0 .. (TIMESTAMPS_LEN - 1) |->
                                        IF k < n THEN all[k] ELSE 0]]
              /\ spill = IF n > TIMESTAMPS_LEN
                         THEN <<all[TIMESTAMPS_LEN]>> ELSE <<>>
    /\ ts_reads = {}
    /\ sensor_states = [i \in Slots |-> IF i < 2 THEN DHT22M_STATES_CONFIGURED
                                        ELSE IF i = 2 THEN DHT22M_STATES_GPIOERROR
                                        ELSE DHT22M_STATES_ZEROCONF]
    /\ gpio_pins = NewGpioPins(<<4, 17, -1>>)
    /\ num_gpios = 3
    /\ chardev_created = [i \in Slots |-> i < 3]
    /\ pin_reserved = {4, 17}
    /\ irq_requested = {0, 1}
    /\ store = [w \in Writers |-> IdleStore]
    /\ gpio_config_mutex = 0
    \* caller 1 sleeps in the read it has armed; caller 2 sleeps in a read
    \* it armed before, which a rejected open has reset
    /\ pc = [c \in Callers |-> IF c \in {1, 2} THEN "sleep" ELSE "idle"]
    /\ loc = [c \in Callers |->
                 IF c = 1
                 THEN [InitLoc EXCEPT !.now = DecodeBase,
                                      !.t0 = DecodeBase + START_LOW_US * NSEC_PER_USEC]
                 ELSE IF c = 2
                 THEN [InitLoc EXCEPT !.minor = 1,
                                      !.now = DecodeBase - NSEC_PER_MSEC,
                                      !.t0 = DecodeBase - NSEC_PER_MSEC
                                               + START_LOW_US * NSEC_PER_USEC]
                 ELSE InitLoc]
    /\ clock = DecodeBase + 10 * NSEC_PER_MSEC
    /\ wire = NoWire
    /\ ev = [slot |-> 0, now |-> DecodeBase + 10 * NSEC_PER_MSEC, par |-> 0]
    /\ budget = [opens |-> MaxOpens, stores |-> MaxStores, noise |-> MaxNoise,
                 exits |-> 0]
    /\ last_op = "begin"

NextDecode ==
    \/ \E c \in Callers : ParseBytes(c)
    \/ \E c \in Callers : TakeResult(c)

SpecDecode == InitDecode /\ [][NextDecode]_vars

(***************************************************************************)
(* The configuration: two writers of the gpio list, step by step, calls of *)
(* configure_gpios that fail, and the opens of the devices up to the       *)
(* return of sensor_start_read.                                            *)
(***************************************************************************)
InitConf == Init

NextConf ==
    \/ \E w \in Writers, list \in ConfLists : StoreEnter(w, list)
    \/ \E w \in Writers : StoreLock(w)
    \/ \E w \in Writers : StoreCheck(w)
    \/ \E w \in Writers, fault \in FaultMaps : StoreConfigure(w, fault)
    \/ \E w \in Writers : StoreUnlock(w)
    \/ ModuleCleanup
    \/ \E c \in Callers, m \in Slots : OpenEnter(c, m)
    \/ \E c \in Callers : StartBusy(c)
    \/ \E c \in Callers : StartUnavailable(c)
    \/ \E c \in Callers : StartTooSoon(c)
    \/ \E c \in Callers : StartArm(c)
    \/ \E c \in Callers : DriveOutputOk(c)
    \/ \E c \in Callers : DriveOutputFail(c)
    \/ \E c \in Callers : DriveInputOk(c)
    \/ \E c \in Callers : DriveInputFail(c)
    \/ \E c \in Callers : OpenFail(c)

SpecConf == InitConf /\ [][NextConf]_vars

(***************************************************************************)
(* The third open.  The gpio list <<4, 17, -1>> is stored and two opens    *)
(* have been made, from time 0 on; one more follows.  The three histories: *)
(*   "late"     caller 1 has read slot 0, the sensor answering with a      *)
(*              frame, and has decoded the read at 21.5 ms; caller 2 has   *)
(*              then opened slot 1, sensor_start_read has returned -EBUSY  *)
(*              for the session in use, and caller 2 has not yet reached   *)
(*              the reset of readstate in chardevice_open;                 *)
(*   "other"    caller 1 has read slot 0 in the same way and has taken the *)
(*              result; caller 2 has then read slot 1, where no sensor     *)
(*              answered, and has taken the result;                        *)
(*   "busy"     caller 1 has armed a read of slot 0 and sleeps; caller 2   *)
(*              has opened slot 1, sensor_start_read has returned -EBUSY   *)
(*              for the session in use, and chardevice_open has reset      *)
(*              readstate on its way out.                                  *)
(***************************************************************************)
\* the time a read armed at time 0 is decoded and taken
RaceTaken == (START_LOW_US + SETTLE_MS * 1000) * NSEC_PER_USEC

\* the frame the sensor of slot 0 answers with: 30.0 %, -20.0 C
RaceFrame == <<1, 44, 128, 200, 117>>

\* what the decode of the read of slot 0 can leave, the sensor answering
\* with f: the session and the indices read
RaceReads(f) ==
    LET ts == FrameStamps(0, f, 76 * NSEC_PER_USEC, 120 * NSEC_PER_USEC)
        got == [ArmSession(InitSession, 4, 0) EXCEPT
                   !.num_edges = TIMESTAMPS_LEN,
                   !.timestamps = [k \in 0 .. (TIMESTAMPS_LEN - 1) |-> ts[k]]]
    IN  sensor_parse_bytes(got, <<>>)

RaceHistories == {"late", "other", "busy"}

InitRace ==
    /\ spill = <<>>
    /\ sensor_states = [i \in Slots |-> IF i < 2 THEN DHT22M_STATES_CONFIGURED
                                        ELSE IF i = 2 THEN DHT22M_STATES_GPIOERROR
                                        ELSE DHT22M_STATES_ZEROCONF]
    /\ gpio_pins = NewGpioPins(<<4, 17, -1>>)
    /\ num_gpios = 3
    /\ chardev_created = [i \in Slots |-> i < 3]
    /\ pin_reserved = {4, 17}
    /\ irq_requested = {0, 1}
    /\ store = [w \in Writers |-> IdleStore]
    /\ gpio_config_mutex = 0
    /\ budget = [opens |-> MaxOpens - 1, stores |-> MaxStores,
                 noise |-> MaxNoise, exits |-> 0]
    /\ \E h \in RaceHistories, r \in RaceReads(RaceFrame) :
             IF h = "late"
             THEN /\ sensor_state = r.st
                  /\ ts_reads = r.reads
                  /\ pc = [c \in Callers |-> IF c = 1 THEN "take"
                                             ELSE IF c = 2 THEN "fail"
                                             ELSE "idle"]
                  /\ loc = [c \in Callers |->
                               IF c = 1
                               THEN [InitLoc EXCEPT
                                        !.t0 = START_LOW_US * NSEC_PER_USEC]
                               ELSE IF c = 2
                               THEN [InitLoc EXCEPT !.minor = 1,
                                                    !.now = RaceTaken,
                                                    !.error = "EBUSY",
                                                    !.cause = "busy"]
                               ELSE InitLoc]
                  /\ clock = RaceTaken
                  /\ wire = NoWire
                  /\ ev = [slot |-> 0, now |-> r.st.timestamps[TIMESTAMPS_LEN - 1],
                           par |-> 1]
                  /\ last_op = "begin"
             ELSE IF h = "other"
             THEN /\ sensor_state =
                        [ArmSession(r.st, 17, RaceTaken) EXCEPT
                            !.readstate = DTH22M_READSTATE_NEXT]
                  /\ ts_reads = {}
                  /\ pc = [c \in Callers |-> "idle"]
                  /\ loc = [c \in Callers |->
                               IF c = 1
                               THEN [InitLoc EXCEPT
                                        !.message = ResultMessage(r.st)]
                               ELSE IF c = 2
                               THEN [InitLoc EXCEPT
                                        !.minor = 1,
                                        !.message = ErrorMessage("EIO")]
                               ELSE InitLoc]
                  /\ clock = 2 * RaceTaken
                  /\ wire = NoWire
                  /\ ev = [slot |-> 1, now |-> RaceTaken, par |-> 0]
                  /\ last_op = "take"
             ELSE /\ sensor_state =
                        [ArmSession(InitSession, 4, 0) EXCEPT
                            !.readstate = DTH22M_READSTATE_NEXT]
                  /\ ts_reads = {}
                  /\ pc = [c \in Callers |-> IF c = 1 THEN "sleep" ELSE "idle"]
                  /\ loc = [c \in Callers |->
                               IF c = 1
                               THEN [InitLoc EXCEPT
                                        !.t0 = START_LOW_US * NSEC_PER_USEC]
                               ELSE IF c = 2
                               THEN [InitLoc EXCEPT
                                        !.minor = 1,
                                        !.error = "EBUSY",
                                        !.cause = "busy",
                                        !.message = ErrorMessage("EBUSY")]
                               ELSE InitLoc]
                  /\ clock = START_LOW_US * NSEC_PER_USEC
                  /\ wire = [slot |-> 0, frame |-> RaceFrame, k |-> 1]
                  /\ ev = [slot |-> 0, now |-> 0, par |-> 1]
                  /\ last_op = "begin"

NextRace ==
    \/ \E c \in Callers, m \in Slots : OpenEnter(c, m)
    \/ \E c \in Callers : StartBusy(c)
    \/ \E c \in Callers : StartUnavailable(c)
    \/ \E c \in Callers : StartTooSoon(c)
    \/ \E c \in Callers : StartArm(c)
    \/ \E c \in Callers : DriveOutputOk(c)
    \/ \E c \in Callers : DriveOutputFail(c)
    \/ \E c \in Callers : DriveInputOk(c)
    \/ \E c \in Callers : DriveInputFail(c)
    \/ \E c \in Callers : DriveInputFailAnswered(c)
    \/ \E c \in Callers : OpenFail(c)
    \/ \E c \in Callers : ParseBytes(c)
    \/ \E c \in Callers : TakeResult(c)
    \/ SensorEdge

SpecRace == InitRace /\ [][NextRace]_vars

(***************************************************************************)
(* Properties.                                                             *)
(***************************************************************************)
\* caller c runs the checks of sensor_start_read in this step
BeginStep(c) == pc[c] = "start" /\ pc'[c] # "start"

\* caller c runs sensor_parse_bytes in this step
DecodeStep(c) == pc[c] = "sleep" /\ pc'[c] = "take"

\* caller c runs the result section in this step
TakeStep(c) == pc[c] = "take" /\ pc'[c] = "idle"

\* caller c leaves chardevice_open by the error path in this step
FailStep(c) == pc[c] = "fail" /\ pc'[c] = "idle"

\* a falling edge is delivered in this step
EdgeStep == ev' # ev

Measurement(st) == <<st.negative, st.temperature, st.humidity>>

\* bit 7 - i mod 8 of byte i div 8
BitAt(bytes, i) == (bytes[i \div 8] \div Pow2(7 - (i % 8))) % 2

\* the distance in ns of the two edges around data bit i
RawWidth(st, i) == st.timestamps[i + 3] - st.timestamps[i + 2]

\* the time of the last edge the handler counted
FinalEdge(st, sp) ==
    IF st.num_edges <= TIMESTAMPS_LEN THEN st.timestamps[st.num_edges - 1]
    ELSE sp[st.num_edges - TIMESTAMPS_LEN]

WaitNs == DHT22M_WAIT_MILLISECOND_AFTER_READ * NSEC_PER_MSEC

\* C1: an open that finds the session not idle is answered ReaderBusy and
\* leaves the whole session as it was, in sensor_start_read and after the
\* open has returned.
C1_BusyLeavesSession ==
    [][\A c \in Callers :
         /\ (BeginStep(c) /\ sensor_state.readstate # DTH22M_READSTATE_NEXT)
               => (loc'[c].error = "EBUSY" /\ sensor_state' = sensor_state)
         /\ (FailStep(c) /\ loc[c].cause = "busy")
               => (loc'[c].message.kind = "ReaderBusy"
                   /\ sensor_state' = sensor_state)]_vars

\* C2: num_edges never exceeds the 43 elements of timestamps[], and no
\* timestamp is written outside indices 0..42.
C2_EdgeCountWithinCapacity ==
    sensor_state.num_edges <= TIMESTAMPS_LEN /\ spill = <<>>

\* C3: an open of a configured slot in the idle state, on the gpio of the
\* session and less than 2100 ms after read_timestamp, is rejected as too
\* soon without arming (readstate TOOSOON, edges untouched), and the message
\* left for the caller is ReadTooSoon.
C3_TooSoonIsReported ==
    [][\A c \in Callers :
         /\ (/\ BeginStep(c)
             /\ sensor_state.readstate = DTH22M_READSTATE_NEXT
             /\ sensor_states[loc[c].minor] = DHT22M_STATES_CONFIGURED
             /\ sensor_state.gpio = gpio_pins[loc[c].minor]
             /\ loc[c].now - sensor_state.read_timestamp < WaitNs)
               => /\ pc'[c] = "fail"
                  /\ loc'[c].cause = "toosoon"
                  /\ sensor_state'.readstate = DTH22M_READSTATE_TOOSOON
                  /\ sensor_state'.num_edges = sensor_state.num_edges
                  /\ sensor_state'.timestamps = sensor_state.timestamps
         /\ (FailStep(c) /\ loc[c].cause = "toosoon")
               => loc'[c].message.kind = "ReadTooSoon"]_vars

\* C4: the result section always leaves readstate NEXT, and an open whose
\* checks come next after a result section is not rejected with -EBUSY
\* (ReaderBusy).
C4_TakeResultUnblocks ==
    [][\A c \in Callers :
         /\ TakeStep(c) => sensor_state'.readstate = DTH22M_READSTATE_NEXT
         /\ (BeginStep(c) /\ last_op = "take") => loc'[c].error # "EBUSY"]_vars

\* C5: with at least 43 edges the decoder ends in OK exactly when byte 4 is
\* the sum of bytes 0..3 mod 256 and in CHKSUMERR otherwise, and on CHKSUMERR
\* the measurement and read_timestamp stay as they were.
C5_ChecksumDecides ==
    [][\A c \in Callers :
         (DecodeStep(c) /\ sensor_state.num_edges >= TIMESTAMPS_LEN) =>
            LET b == sensor_state'.bytes
                match == b[4] = (b[0] + b[1] + b[2] + b[3]) % 256
            IN  /\ match => sensor_state'.readstate = DTH22M_READSTATE_OK
                /\ ~match =>
                     /\ sensor_state'.readstate = DTH22M_READSTATE_CHKSUMERR
                     /\ Measurement(sensor_state') = Measurement(sensor_state)
                     /\ sensor_state'.read_timestamp = sensor_state.read_timestamp]_vars

\* a checksum error was decoded, and the earlier measurement is still there
C5_Witness ==
    /\ pc[1] = "take"
    /\ sensor_state.readstate = DTH22M_READSTATE_CHKSUMERR
    /\ sensor_state.num_edges = TIMESTAMPS_LEN
    /\ sensor_state.bytes[4] # ChecksumOf(sensor_state.bytes)
    /\ sensor_state.humidity = 600
    /\ sensor_state.read_timestamp = 7 * NSEC_PER_MSEC

\* C6: with fewer than 43 edges the decoder ends in OTHERR, reads no
\* timestamp at an index >= num_edges, and leaves bytes, the measurement and
\* read_timestamp as they were.
C6_ShortReadIsOtherError ==
    [][\A c \in Callers :
         (DecodeStep(c) /\ sensor_state.num_edges < TIMESTAMPS_LEN) =>
            /\ sensor_state'.readstate = DTH22M_READSTATE_OTHERR
            /\ \A k \in ts_reads' : k < sensor_state.num_edges
            /\ sensor_state'.bytes = sensor_state.bytes
            /\ Measurement(sensor_state') = Measurement(sensor_state)
            /\ sensor_state'.read_timestamp = sensor_state.read_timestamp]_vars

\* a read of 42 edges was decoded to OTHERR
C6_Witness ==
    /\ pc[1] = "take"
    /\ sensor_state.readstate = DTH22M_READSTATE_OTHERR
    /\ sensor_state.num_edges = TIMESTAMPS_LEN - 1
    /\ ts_reads = {}
    /\ sensor_state.humidity = 600

\* C7 as stated: data bit i is 1 exactly when timestamps[i+3] - timestamps[i+2]
\* is more than 101 us.
C7_BitIsOneAbove101us ==
    [][\A c \in Callers :
         (DecodeStep(c) /\ sensor_state.num_edges >= TIMESTAMPS_LEN) =>
            \A i \in 0 .. (DATA_BITS - 1) :
               (BitAt(sensor_state'.bytes, i) = 1)
                  <=> (RawWidth(sensor_state, i) > BIT_BOUNDARY_US * NSEC_PER_USEC)]_vars

\* C7 as amended: data bit i is 1 exactly when timestamps[i+3] - timestamps[i+2],
\* cut to whole microseconds, is more than 101, that is when it is at least
\* 102 us; and widths of 80 us throughout give bytes 0, OK, humidity 0 and
\* temperature 0.
C7_BitIsOneFrom102us ==
    [][\A c \in Callers :
         (DecodeStep(c) /\ sensor_state.num_edges >= TIMESTAMPS_LEN) =>
            /\ \A i \in 0 .. (DATA_BITS - 1) :
                  (BitAt(sensor_state'.bytes, i) = 1)
                     <=> (RawWidth(sensor_state, i)
                             >= (BIT_BOUNDARY_US + 1) * NSEC_PER_USEC)
            /\ (\A i \in 0 .. (DATA_BITS - 1) :
                   RawWidth(sensor_state, i) = 80 * NSEC_PER_USEC)
                  => /\ sensor_state'.bytes = ZeroBytes
                     /\ sensor_state'.readstate = DTH22M_READSTATE_OK
                     /\ sensor_state'.humidity = 0
                     /\ sensor_state'.temperature = 0]_vars

\* a frame was decoded in which a width of 101.999 us gave a 0 and a width
\* of 102 us gave a 1
C7_Witness ==
    /\ pc[1] = "take"
    /\ sensor_state.num_edges = TIMESTAMPS_LEN
    /\ sensor_state.readstate \in {DTH22M_READSTATE_OK, DTH22M_READSTATE_CHKSUMERR}
    /\ \E i, j \in 0 .. (DATA_BITS - 1) :
          /\ RawWidth(sensor_state, i) = BIT_BOUNDARY_US * NSEC_PER_USEC + 999
          /\ BitAt(sensor_state.bytes, i) = 0
          /\ RawWidth(sensor_state, j) = (BIT_BOUNDARY_US + 1) * NSEC_PER_USEC
          /\ BitAt(sensor_state.bytes, j) = 1

\* C8: when the decoder ends in OK, humidity is byte0*256 + byte1, the
\* temperature is (byte2 & 0x7F)*256 + byte3, negative is bit 7 of byte 2,
\* and read_timestamp is the time of the last edge recorded.
C8_MeasurementOfOk ==
    [][\A c \in Callers :
         (DecodeStep(c) /\ sensor_state'.readstate = DTH22M_READSTATE_OK) =>
            LET b == sensor_state'.bytes
            IN  /\ sensor_state'.humidity = b[0] * 256 + b[1]
                /\ sensor_state'.temperature = (b[2] % 128) * 256 + b[3]
                /\ sensor_state'.negative = (b[2] >= 128)
                /\ sensor_state'.read_timestamp
                      = FinalEdge(sensor_state, spill)]_vars

\* C9: an edge of the session's gpio that comes while COLLECT with
\* num_edges = 1 is dropped when less than 500 us have passed since
\* timestamps[0], and stored at index 1, num_edges becoming 2, when 500 us
\* or more have passed.
C9_FirstEdgeAfter500us ==
    [][(/\ EdgeStep
        /\ sensor_state.readstate = DTH22M_READSTATE_COLLECT
        /\ sensor_state.gpio = gpio_pins[ev'.slot]
        /\ sensor_state.num_edges = 1)
          => IF ev'.now - sensor_state.timestamps[0]
                   < START_PULSE_MIN_US * NSEC_PER_USEC
             THEN sensor_state' = sensor_state
             ELSE sensor_state' = [sensor_state EXCEPT !.timestamps[1] = ev'.now,
                                                       !.num_edges = 2]]_vars

\* an edge exactly 500 us after timestamps[0] was stored at index 1
C9_Witness ==
    /\ sensor_state.readstate = DTH22M_READSTATE_COLLECT
    /\ sensor_state.num_edges = 2
    /\ sensor_state.timestamps[1] = ev.now
    /\ ev.now - sensor_state.timestamps[0] = START_PULSE_MIN_US * NSEC_PER_USEC

\* C10: the checks of an open of a configured slot, in the idle state and
\* with the spacing rule not applying, arm the session: readstate COLLECT,
\* gpio the slot's, num_edges 1, timestamps[0] the start time, and negative,
\* temperature and humidity cleared.
C10_IdleOpenArms ==
    [][\A c \in Callers :
         (/\ BeginStep(c)
          /\ sensor_state.readstate = DTH22M_READSTATE_NEXT
          /\ sensor_states[loc[c].minor] = DHT22M_STATES_CONFIGURED
          /\ ~(/\ sensor_state.gpio = gpio_pins[loc[c].minor]
               /\ loc[c].now - sensor_state.read_timestamp < WaitNs))
            => /\ pc'[c] = "drive_out"
               /\ loc'[c].error = "OK"
               /\ sensor_state'.readstate = DTH22M_READSTATE_COLLECT
               /\ sensor_state'.gpio = gpio_pins[loc[c].minor]
               /\ sensor_state'.num_edges = 1
               /\ sensor_state'.timestamps[0] = loc[c].now
               /\ Measurement(sensor_state') = <<FALSE, 0, 0>>
               /\ sensor_state'.bytes = sensor_state.bytes
               /\ sensor_state'.read_timestamp = sensor_state.read_timestamp]_vars

\* a session was armed on the gpio of the read before it, 2100 ms after that
\* read gave a measurement, which the arming has cleared
C10_Witness ==
    \E c \in Callers :
       /\ pc[c] = "drive_out"
       /\ sensor_state.readstate = DTH22M_READSTATE_COLLECT
       /\ sensor_state.num_edges = 1
       /\ sensor_state.timestamps[0] = loc[c].now
       /\ sensor_state.gpio = gpio_pins[loc[c].minor]
       /\ sensor_state.read_timestamp > 0
       /\ loc[c].now - sensor_state.read_timestamp = WaitNs
       /\ sensor_state.bytes[1] = 44
       /\ Measurement(sensor_state) = <<FALSE, 0, 0>>

\* C11 as stated: the checks of an open of a slot that is not CONFIGURED, in
\* the idle state, fail as unavailable and leave the session as it was,
\* readstate still NEXT.
C11_UnavailableLeavesIdle ==
    [][\A c \in Callers :
         (/\ BeginStep(c)
          /\ sensor_state.readstate = DTH22M_READSTATE_NEXT
          /\ sensor_states[loc[c].minor] # DHT22M_STATES_CONFIGURED)
            => /\ loc'[c].cause = "unavailable"
               /\ sensor_state' = sensor_state]_vars

\* C11 as amended: the checks of an open of a slot that is not CONFIGURED, in
\* the idle state, return -EIO with gpio_config_mutex free, no edge and no
\* answer on the wire, and the session unchanged but for readstate, which is
\* OTHERR; the error path of the open then sets readstate to NEXT, changes
\* nothing else, and leaves the message IOError.
C11_UnavailableIsOtherError ==
    [][\A c \in Callers :
         /\ (/\ BeginStep(c)
             /\ sensor_state.readstate = DTH22M_READSTATE_NEXT
             /\ sensor_states[loc[c].minor] # DHT22M_STATES_CONFIGURED)
               => /\ pc'[c] = "fail"
                  /\ loc'[c].cause = "unavailable"
                  /\ loc'[c].error = "EIO"
                  /\ sensor_state' = [sensor_state EXCEPT
                                        !.readstate = DTH22M_READSTATE_OTHERR]
                  /\ gpio_config_mutex' = 0
                  /\ ev' = ev
                  /\ wire' = wire
         /\ (FailStep(c) /\ loc[c].cause = "unavailable")
               => /\ sensor_state' = [sensor_state EXCEPT
                                        !.readstate = DTH22M_READSTATE_NEXT]
                  /\ loc'[c].message.kind = "IOError"
                  /\ ev' = ev
                  /\ wire' = wire]_vars

\* an open of the slot with the invalid gpio number has returned IOError
\* after a good read, whose measurement is still in the session
C11_Witness ==
    \E c \in Callers :
       /\ pc[c] = "idle"
       /\ loc[c].cause = "unavailable"
       /\ loc[c].message.kind = "IOError"
       /\ sensor_states[loc[c].minor] = DHT22M_STATES_GPIOERROR
       /\ sensor_state.readstate = DTH22M_READSTATE_NEXT
       /\ sensor_state.humidity = 300
       /\ sensor_state.num_edges = TIMESTAMPS_LEN

\* the read the session was last armed for was decoded to a failure: too
\* few edges, or a checksum that does not match
LastReadFailed(st) ==
    \/ st.num_edges < TIMESTAMPS_LEN
    \/ st.bytes[4] # (st.bytes[0] + st.bytes[1] + st.bytes[2] + st.bytes[3]) % 256

\* C12 as stated: a decode that ends in OK, CHKSUMERR or OTHERR leaves
\* read_timestamp at a time of that read, not before its start; and an open
\* of the session's gpio that comes next after the result of a failed read,
\* less than 2100 ms after that read began, is rejected as too soon.
C12_EveryReadIsStamped ==
    [][\A c \in Callers :
         /\ (/\ DecodeStep(c)
             /\ sensor_state'.readstate \in {DTH22M_READSTATE_OK,
                                             DTH22M_READSTATE_CHKSUMERR,
                                             DTH22M_READSTATE_OTHERR})
               => sensor_state'.read_timestamp >= sensor_state.timestamps[0]
         /\ (/\ BeginStep(c)
             /\ last_op = "take"
             /\ sensor_state.readstate = DTH22M_READSTATE_NEXT
             /\ sensor_states[loc[c].minor] = DHT22M_STATES_CONFIGURED
             /\ sensor_state.gpio = gpio_pins[loc[c].minor]
             /\ LastReadFailed(sensor_state)
             /\ loc[c].now - sensor_state.timestamps[0] < WaitNs)
               => loc'[c].cause = "toosoon"]_vars

\* C12 as amended: a decode that ends in CHKSUMERR or OTHERR leaves
\* read_timestamp as it was; and the checks of an open of a configured slot
\* in the idle state reject it as too soon exactly when the slot's gpio is
\* the session's and less than 2100 ms have passed since read_timestamp,
\* whatever reads have failed since.
C12_OnlyOkIsStamped ==
    [][\A c \in Callers :
         /\ (/\ DecodeStep(c)
             /\ sensor_state'.readstate \in {DTH22M_READSTATE_CHKSUMERR,
                                             DTH22M_READSTATE_OTHERR})
               => sensor_state'.read_timestamp = sensor_state.read_timestamp
         /\ (/\ BeginStep(c)
             /\ sensor_state.readstate = DTH22M_READSTATE_NEXT
             /\ sensor_states[loc[c].minor] = DHT22M_STATES_CONFIGURED)
               => ((loc'[c].cause = "toosoon")
                     <=> (/\ sensor_state.gpio = gpio_pins[loc[c].minor]
                          /\ loc[c].now - sensor_state.read_timestamp < WaitNs))]_vars

\* an open of the session's gpio is at its checks 21.5 ms after the start of
\* a read that ended in a checksum error, and the spacing rule does not
\* apply to it
C12_Witness ==
    \E c \in Callers :
       /\ pc[c] = "start"
       /\ gpio_config_mutex = 0
       /\ last_op = "take"
       /\ sensor_state.readstate = DTH22M_READSTATE_NEXT
       /\ sensor_states[loc[c].minor] = DHT22M_STATES_CONFIGURED
       /\ sensor_state.gpio = gpio_pins[loc[c].minor]
       /\ sensor_state.num_edges = TIMESTAMPS_LEN
       /\ sensor_state.bytes[4] # ChecksumOf(sensor_state.bytes)
       /\ loc[c].now - sensor_state.timestamps[0] < WaitNs
       /\ sensor_state.read_timestamp = 0
       /\ ~TooSoon(sensor_state, gpio_pins[loc[c].minor], loc[c].now)

\* C13: a falling edge never changes readstate, gpio, bytes or the
\* measurement; it changes the session only when readstate is COLLECT, the
\* interrupt's gpio is the session's and num_edges >= 1, and then only
\* num_edges and timestamps.
C13_EdgeChangesEdgesOnly ==
    [][EdgeStep =>
         /\ sensor_state'.readstate = sensor_state.readstate
         /\ sensor_state'.gpio = sensor_state.gpio
         /\ sensor_state'.bytes = sensor_state.bytes
         /\ Measurement(sensor_state') = Measurement(sensor_state)
         /\ (sensor_state' # sensor_state)
               => /\ sensor_state.readstate = DTH22M_READSTATE_COLLECT
                  /\ sensor_state.gpio = gpio_pins[ev'.slot]
                  /\ sensor_state.num_edges >= 1]_vars

CompleteStates ==
    {DTH22M_READSTATE_OK, DTH22M_READSTATE_CHKSUMERR, DTH22M_READSTATE_OTHERR}

\* C14: sensor_parse_bytes always leaves readstate OK, CHKSUMERR or OTHERR,
\* whatever readstate and num_edges it found; and when it runs on a session
\* that was decoded and whose result has not been taken, readstate, bytes and
\* the measurement come out as the first decode left them.
C14_DecodeCompletesAndRepeats ==
    [][\A c \in Callers :
         DecodeStep(c) =>
            /\ sensor_state'.readstate \in CompleteStates
            /\ (sensor_state.readstate \in CompleteStates)
                  => /\ sensor_state'.readstate = sensor_state.readstate
                     /\ sensor_state'.bytes = sensor_state.bytes
                     /\ Measurement(sensor_state') = Measurement(sensor_state)]_vars

\* two callers have decoded the same 43 edges, and neither has taken the
\* result: a good frame with humidity 30.0
C14_Witness ==
    /\ pc[1] = "take"
    /\ pc[2] = "take"
    /\ sensor_state.readstate = DTH22M_READSTATE_OK
    /\ sensor_state.num_edges = TIMESTAMPS_LEN
    /\ sensor_state.bytes[1] = 44
    /\ sensor_state.humidity = 300

\* caller c returns from sensor_start_read by start_seq_error in this step
DriveFailStep(c) == pc[c] \in {"drive_out", "drive_in"} /\ pc'[c] = "fail"

\* caller c returns 0 from sensor_start_read in this step
DriveDoneStep(c) == pc[c] = "drive_in" /\ pc'[c] = "sleep"

\* C15: when a pin drive of an armed session fails, sensor_start_read returns
\* -EIO with readstate OTHERR and gpio_config_mutex released, and a falling
\* edge that comes while readstate is OTHERR changes nothing in the session;
\* when both drives succeed it returns 0 with readstate COLLECT and
\* gpio_config_mutex released.
C15_DriveOutcome ==
    [][/\ \A c \in Callers :
            /\ DriveFailStep(c)
                  => /\ loc'[c].error = "EIO"
                     /\ sensor_state'.readstate = DTH22M_READSTATE_OTHERR
                     /\ gpio_config_mutex' = 0
            /\ DriveDoneStep(c)
                  => /\ loc'[c].error = "OK"
                     /\ sensor_state'.readstate = DTH22M_READSTATE_COLLECT
                     /\ gpio_config_mutex' = 0
       /\ (EdgeStep /\ sensor_state.readstate = DTH22M_READSTATE_OTHERR)
             => (sensor_state' = sensor_state /\ spill' = spill)]_vars

\* C16: a sensor_start_read that finds readstate NEXT and a CONFIGURED slot
\* whose gpio is not the session's is never rejected as too soon, however
\* short the time since read_timestamp: it arms the session.
C16_OtherGpioIsNotTooSoon ==
    [][\A c \in Callers :
         (/\ BeginStep(c)
          /\ sensor_state.readstate = DTH22M_READSTATE_NEXT
          /\ sensor_states[loc[c].minor] = DHT22M_STATES_CONFIGURED
          /\ sensor_state.gpio # gpio_pins[loc[c].minor])
            => /\ loc'[c].cause # "toosoon"
               /\ sensor_state'.readstate = DTH22M_READSTATE_COLLECT
               /\ sensor_state'.gpio = gpio_pins[loc[c].minor]
               /\ pc'[c] = "drive_out"]_vars

\* gpio 4 is armed again 43 ms after its good read: gpio 17 had the session
\* in between, and read_timestamp is still that of the read of gpio 4
C16_Witness ==
    \E c \in Callers :
       /\ pc[c] = "drive_out"
       /\ sensor_state.gpio = 4
       /\ sensor_state.readstate = DTH22M_READSTATE_COLLECT
       /\ sensor_state.read_timestamp > 0
       /\ sensor_state.bytes[4] = RaceFrame[5]
       /\ loc[c].now - sensor_state.read_timestamp < WaitNs

\* writer w runs configure_gpios in this step
ConfigureStep(w) == store[w].pc = "configure" /\ store'[w].pc = "unlock"

ErrorStates == {DHT22M_STATES_GPIOERROR, DHT22M_STATES_IRQERROR}

\* C17: a slot becomes CONFIGURED only in configure_gpios, with a valid gpio
\* that is then reserved, and with gpio_request, gpio_direction_input,
\* gpio_to_irq and request_irq all successful; when one of them fails the
\* slot is left GPIOERROR or IRQERROR.  A slot in an error state changes
\* only in the configure_gpios of a store whose list differs, and until then
\* every sensor_start_read for it fails and arms nothing.
C17_ReadyOnlyAfterAllSteps ==
    [][/\ \A i \in Slots :
            /\ (sensor_states'[i] = DHT22M_STATES_CONFIGURED
                /\ sensor_states[i] # DHT22M_STATES_CONFIGURED)
                  => \E w \in Writers :
                        /\ ConfigureStep(w)
                        /\ store'[w].fault[i] = "none"
                        /\ gpio_is_valid(gpio_pins'[i])
                        /\ gpio_pins'[i] \in pin_reserved'
                        /\ i \in irq_requested'
            /\ \A w \in Writers :
                  (ConfigureStep(w) /\ i < num_gpios'
                   /\ (store'[w].fault[i] # "none" \/ ~gpio_is_valid(gpio_pins'[i])))
                     => /\ sensor_states'[i] \in ErrorStates
                        /\ i \notin irq_requested'
            /\ (sensor_states[i] \in ErrorStates
                /\ sensor_states'[i] # sensor_states[i])
                  => \E w \in Writers :
                        /\ ConfigureStep(w)
                        /\ gpio_pins' # gpio_pins
       /\ \A c \in Callers :
            (BeginStep(c) /\ sensor_states[loc[c].minor] \in ErrorStates)
               => /\ pc'[c] = "fail"
                  /\ loc'[c].error \in {"EIO", "EBUSY"}
                  /\ sensor_state'.readstate
                        \in {sensor_state.readstate, DTH22M_READSTATE_OTHERR}
                  /\ sensor_state' = [sensor_state EXCEPT
                                         !.readstate = sensor_state'.readstate]
                  /\ gpio_config_mutex' = 0]_vars

\* request_irq has failed for a slot, another slot is configured, and an open
\* of the failed slot is on its way out with -EIO
C17_Witness ==
    \E c \in Callers, i \in Slots :
       /\ pc[c] = "fail"
       /\ loc[c].cause = "unavailable"
       /\ sensor_states[loc[c].minor] = DHT22M_STATES_IRQERROR
       /\ gpio_pins[loc[c].minor] \notin pin_reserved
       /\ sensor_states[i] = DHT22M_STATES_CONFIGURED
       /\ i \in irq_requested

\* the callers between the arming and the return of sensor_start_read
Driving == {c \in Callers : pc[c] \in {"drive_out", "drive_in"}}

\* the writers between mutex_lock and mutex_unlock of dht22m_gpios_store
Storing == {w \in Writers : store[w].pc \in {"check", "configure", "unlock"}}

\* writer w runs the is_change test, and free_gpios if the list differs
CheckStep(w) == store[w].pc = "check" /\ store'[w].pc # "check"

\* C18: at any time at most one caller is in the check-and-drive section of
\* sensor_start_read or one writer is between mutex_lock and mutex_unlock of
\* dht22m_gpios_store, never both and never two, and that one holds
\* gpio_config_mutex; the checks of sensor_start_read run only with no writer
\* inside.  In a store whose list differs, free_gpios leaves every slot that
\* was CONFIGURED at ZEROCONF with its interrupt and gpio released, and
\* configure_gpios, the only step that makes a slot CONFIGURED, starts with
\* no slot CONFIGURED, no interrupt registered and no gpio held.
C18_StoreExcludesBeginAndStore ==
    /\ [](/\ Cardinality(Driving) + Cardinality(Storing) <= 1
          /\ \A c \in Driving : gpio_config_mutex = c
          /\ \A w \in Storing : gpio_config_mutex = StoreOwner(w)
          /\ (Driving = {} /\ Storing = {}) => gpio_config_mutex = 0)
    /\ [][/\ \A c \in Callers : BeginStep(c) => Storing = {}
          /\ \A w \in Writers :
               /\ (CheckStep(w) /\ store'[w].pc = "configure")
                     => /\ gpio_pins # NewGpioPins(store[w].list)
                        /\ \A i \in Slots :
                              sensor_states[i] = DHT22M_STATES_CONFIGURED
                                 => /\ sensor_states'[i] = DHT22M_STATES_ZEROCONF
                                    /\ i \notin irq_requested'
                                    /\ gpio_pins[i] \notin pin_reserved'
               /\ ConfigureStep(w)
                     => /\ \A i \in Slots :
                              sensor_states[i] # DHT22M_STATES_CONFIGURED
                        /\ irq_requested = {}
                        /\ pin_reserved = {}
          /\ \A i \in Slots :
               (sensor_states'[i] = DHT22M_STATES_CONFIGURED
                /\ sensor_states[i] # DHT22M_STATES_CONFIGURED)
                  => \E w \in Writers : ConfigureStep(w)]_vars

\* a writer has freed the two configured slots of the list before and is about
\* to configure the new list, while the other writer and an open of a device
\* wait for gpio_config_mutex
C18_Witness ==
    \E w, v \in Writers, c \in Callers :
       /\ store[w].pc = "configure"
       /\ store[v].pc = "lock"
       /\ pc[c] = "start"
       /\ gpio_config_mutex = StoreOwner(w)
       /\ gpio_pins[0] = 4 /\ gpio_pins[1] = 17
       /\ store[w].list = <<17, 4>>
       /\ \A i \in Slots : sensor_states[i] # DHT22M_STATES_CONFIGURED
       /\ irq_requested = {}

\* the session is the one caller c armed: its gpio and its start time
OwnSession(c) ==
    /\ sensor_state.gpio = gpio_pins[loc[c].minor]
    /\ sensor_state.timestamps[0] = loc[c].now

\* C19: the result section of a caller reads the session that caller armed:
\* an "Ok" message carries the measurement decoded from the edges of the
\* caller's own read of its own gpio, and no message is made from the
\* readstate of a read another caller armed.
C19_OwnMeasurementOnly ==
    [][\A c \in Callers :
         TakeStep(c)
            => /\ OwnSession(c)
               /\ (loc'[c].message.kind = "Ok")
                     => /\ sensor_state.num_edges >= TIMESTAMPS_LEN
                        /\ loc'[c].message = ResultMessage(sensor_state)]_vars

\* caller c arms the session in this step
ArmStep(c) == pc[c] = "start" /\ pc'[c] = "drive_out"

\* caller c drives its pin low in this step: the falling edge of its own
\* start signal is delivered, at the time of the arming
StartEdgeStep(c) == pc[c] = "drive_out" /\ pc'[c] = "drive_in"

\* C20: timestamps[0] of an armed session is never earlier than the time of
\* the arming, also when sensor_start_read has waited for gpio_config_mutex;
\* so an edge that comes less than 500 us after the arming, as the falling
\* edge of the start signal does, is never stored at timestamps[1].
C20_StartMarkerNotBeforeArming ==
    [][\A c \in Callers :
         /\ ArmStep(c) => sensor_state'.timestamps[0] >= clock
         /\ StartEdgeStep(c)
               => (sensor_state.readstate = DTH22M_READSTATE_COLLECT
                      => sensor_state'.num_edges = 1)]_vars

\* C21: whenever no caller is inside chardevice_open, readstate is NEXT:
\* every way out of an open, the error path after -EBUSY or -EIO and the
\* result section after every decode, sets readstate = NEXT last.
C21_IdleWhenNoOpen ==
    (\A c \in Callers : pc[c] = "idle")
       => sensor_state.readstate = DTH22M_READSTATE_NEXT

\* both opens are over, one rejected as busy and one through its result
\* section after an armed read, and nobody is inside an open
C21_Witness ==
    /\ \A c \in Callers : pc[c] = "idle"
    /\ sensor_state.readstate = DTH22M_READSTATE_NEXT
    /\ sensor_state.num_edges >= 1
    /\ last_op = "take"
    /\ \E c \in Callers : loc[c].message.kind = "ReaderBusy"
    /\ \E c \in Callers : loc[c].message.kind \in {"Ok", "ChecksumError", "IOError"}
                             /\ loc[c].cause = "none"

\* the slots whose record is CONFIGURED
ReadySlots == {i \in Slots : sensor_states[i] = DHT22M_STATES_CONFIGURED}

\* C22: at every moment of every sequence of stores and the cleanup, the
\* slots with a registered interrupt are the CONFIGURED slots, the gpios held
\* are the gpios of the CONFIGURED slots, one slot per gpio, and no slot at
\* or past num_gpios is CONFIGURED; free_gpios and the cleanup release only
\* what is held, and a slot for which a call of configure_gpios failed is in
\* an error state and holds nothing (its gpio is held only if another,
\* CONFIGURED slot names the same gpio).
C22_ResourcesMatchReady ==
    /\ [](/\ irq_requested = ReadySlots
          /\ pin_reserved = {gpio_pins[i] : i \in ReadySlots}
          /\ \A i, j \in ReadySlots : gpio_pins[i] = gpio_pins[j] => i = j
          /\ \A i \in Slots : i >= num_gpios => i \notin ReadySlots)
    /\ [][/\ (irq_requested \ irq_requested') \subseteq ReadySlots
          /\ (pin_reserved \ pin_reserved')
                \subseteq {gpio_pins[i] : i \in ReadySlots}
          /\ \A w \in Writers, i \in Slots :
                (ConfigureStep(w) /\ i < num_gpios'
                 /\ store'[w].fault[i] # "none")
                   => /\ i \notin irq_requested'
                      /\ sensor_states'[i] \in ErrorStates
                      /\ gpio_pins'[i] \in pin_reserved'
                            => \E j \in Slots \ {i} :
                                  /\ sensor_states'[j] = DHT22M_STATES_CONFIGURED
                                  /\ gpio_pins'[j] = gpio_pins'[i]]_vars

\* the module is unloaded after a store in which a call failed for one slot
\* and the other slot was configured, and nothing is held any more
C22_Witness ==
    /\ budget.exits = 1
    /\ num_gpios >= 2
    /\ \E i \in Slots : sensor_states[i] \in ErrorStates /\ gpio_is_valid(gpio_pins[i])
    /\ \E i \in Slots : sensor_states[i] = DHT22M_STATES_ZEROCONF /\ i < num_gpios
    /\ ReadySlots = {}
    /\ irq_requested = {}
    /\ pin_reserved = {}

=============================================================================
